---- MODULE Spec2Model ----
(***************************************************************************)
(* TypescriptModuleLoader::load (src/src/lib.rs) as a state machine.       *)
(*                                                                         *)
(* Each call of load() builds one future.  The future runs without         *)
(* interruption between its suspension points, which are the three .await  *)
(* expressions: tokio::fs::read_to_string (line 82), http.get().send()     *)
(* (line 91) and http_res.text() (line 128).  One action of the model is   *)
(* one such uninterrupted run of one future.                               *)
(***************************************************************************)
EXTENDS Naturals, Sequences, FiniteSets

\* Number of load() calls the host issues on one loader.
NumLoads == 2

Loads == 1..NumLoads

\* An absent name (no media type yet, no content-type header).
Nil == "nil"

\* Option values: None, or Some(x).
None == <<>>
Some(x) == <<x>>

(***************************************************************************)
(* Inputs                                                                  *)
(***************************************************************************)

\* Module specifiers (deno_core::ModuleSpecifier = url::Url): scheme, host
\* and the extension of the last path segment.
Url(scheme, host, ext) == [scheme |-> scheme, host |-> host, ext |-> ext]

NoUrl == Url(Nil, Nil, Nil)

Specifiers ==
    { Url("file", "", "js"),     Url("file", "", "jsx"),
      Url("file", "", "ts"),
      Url("file", "", "json"),   Url("file", "", "xyz"),
      Url("file", "remote", "ts"),
      Url("https", "example.com", "d.ts"),
      Url("http", "static.example", ""),
      Url("data", "", "") }

\* deno_core::RequestedModuleType as the importer declares it.
RequestedModuleTypes == {"None", "Json"}

\* Source texts, as token sequences: "type" is a type annotation, "bad" a
\* token no grammar accepts.
Texts == { <<"decl", "type", "init">>, <<"decl", "bad">> }

\* Outcome of an awaited read of text (file read or response body read).
ReadResults ==
    {[ok |-> FALSE, text |-> <<>>]} \cup {[ok |-> TRUE, text |-> t] : t \in Texts}

ContentTypes ==
    { "application/javascript", "application/json", "text/plain", "image/png" }

\* Outcome of the awaited send(): a transport error, or a response with a
\* status and an optional content-type header.
HttpResults ==
    {[ok |-> FALSE, status |-> 0, content_type |-> Nil]}
    \cup {[ok |-> TRUE, status |-> st, content_type |-> ct] :
            st \in {200, 404}, ct \in ContentTypes \cup {Nil}}

\* What the origin of a specifier may answer: static.example serves plain
\* text or nothing; any other host may answer anything.
HttpResultsFor(s) ==
    IF s.host = "static.example"
    THEN { [ok |-> TRUE, status |-> 200, content_type |-> "text/plain"],
           [ok |-> TRUE, status |-> 404, content_type |-> Nil] }
    ELSE HttpResults

NoIo == [send |-> None, read |-> None, body |-> None]

(***************************************************************************)
(* Library functions the loader calls                                      *)
(***************************************************************************)

\* Url::to_file_path on a unix target: only a file URL without a host.
ToFilePathOk(s) == s.scheme = "file" /\ s.host = ""

\* deno_ast::MediaType::from_path: the extension table.
FromPath(ext) ==
    CASE ext = "js"   -> "JavaScript"
      [] ext = "mjs"  -> "Mjs"
      [] ext = "cjs"  -> "Cjs"
      [] ext = "jsx"  -> "Jsx"
      [] ext = "ts"   -> "TypeScript"
      [] ext = "mts"  -> "Mts"
      [] ext = "cts"  -> "Cts"
      [] ext = "d.ts" -> "Dts"
      [] ext = "d.mts" -> "Dmts"
      [] ext = "d.cts" -> "Dcts"
      [] ext = "tsx"  -> "Tsx"
      [] ext = "json" -> "Json"
      [] ext = "wasm" -> "Wasm"
      [] OTHER        -> "Unknown"

\* deno_ast: a JavaScript or TypeScript content type is refined by the
\* specifier's extension.
MapJsLikeExtension(s, default) ==
    CASE s.ext = "jsx"  -> "Jsx"
      [] s.ext = "tsx"  -> "Tsx"
      [] s.ext = "mjs"  -> "Mjs"
      [] s.ext = "cjs"  -> "Cjs"
      [] s.ext = "d.ts" -> "Dts"
      [] OTHER          -> default

\* deno_ast::MediaType::from_content_type(specifier, content_type).
FromContentType(s, ct) ==
    CASE ct = "application/typescript" -> MapJsLikeExtension(s, "TypeScript")
      [] ct = "application/javascript" -> MapJsLikeExtension(s, "JavaScript")
      [] ct = "text/jsx"               -> "Jsx"
      [] ct = "text/tsx"               -> "Tsx"
      [] ct = "application/json"       -> "Json"
      [] ct = "application/wasm"       -> "Wasm"
      [] ct = "text/plain" /\ s.scheme # "data" -> FromPath(s.ext)
      [] OTHER                         -> "Unknown"

\* deno_ast::parse_module followed by transpile: a syntax error, or the text
\* with its type annotations erased.
ParseOk(text) == \A i \in 1..Len(text) : text[i] # "bad"

IsRuntimeToken(tok) == tok # "type"

Transpile(text) == SelectSeq(text, IsRuntimeToken)

(***************************************************************************)
(* The body of the future, between suspension points                       *)
(***************************************************************************)

\* Faulty variant: the Jsx arm passes the text through.
MatchMediaTypeJsxVerbatim(m) ==
    CASE m \in {"JavaScript", "Mjs", "Cjs", "Jsx"} ->
            [ok |-> TRUE, module_type |-> "JavaScript", should_transpile |-> FALSE]
      [] m \in {"TypeScript", "Mts", "Cts", "Dts", "Dmts", "Dcts", "Tsx"} ->
            [ok |-> TRUE, module_type |-> "JavaScript", should_transpile |-> TRUE]
      [] m = "Json" ->
            [ok |-> TRUE, module_type |-> "Json", should_transpile |-> FALSE]
      [] OTHER ->
            [ok |-> FALSE, module_type |-> Nil, should_transpile |-> FALSE]

\* Faulty variant: the fall-through arm defaults to JavaScript.
MatchMediaTypeDefaultJs(m) ==
    CASE m = "Jsx" ->
            [ok |-> TRUE, module_type |-> "JavaScript", should_transpile |-> TRUE]
      [] m \in {"TypeScript", "Mts", "Cts", "Dts", "Dmts", "Dcts", "Tsx"} ->
            [ok |-> TRUE, module_type |-> "JavaScript", should_transpile |-> TRUE]
      [] m = "Json" ->
            [ok |-> TRUE, module_type |-> "Json", should_transpile |-> FALSE]
      [] OTHER ->
            [ok |-> TRUE, module_type |-> "JavaScript", should_transpile |-> FALSE]

\* The match on media_type: (module_type, should_transpile), or the
\* fall-through arm that bails.
MatchMediaType(m) ==
    CASE m \in {"JavaScript", "Mjs", "Cjs"} ->
            [ok |-> TRUE, module_type |-> "JavaScript", should_transpile |-> FALSE]
      [] m = "Jsx" ->
            [ok |-> TRUE, module_type |-> "JavaScript", should_transpile |-> TRUE]
      [] m \in {"TypeScript", "Mts", "Cts", "Dts", "Dmts", "Dcts", "Tsx"} ->
            [ok |-> TRUE, module_type |-> "JavaScript", should_transpile |-> TRUE]
      [] m = "Json" ->
            [ok |-> TRUE, module_type |-> "Json", should_transpile |-> FALSE]
      [] OTHER ->
            [ok |-> FALSE, module_type |-> Nil, should_transpile |-> FALSE]

\* Faulty variants: the guard is missing; the guard's comparison is inverted.
JsonGuardNever(mt, req) == FALSE

JsonGuardInverted(mt, req) == mt = "Json" /\ req = "Json"

\* The JSON guard: TRUE when the load must be rejected.
JsonGuardRejects(mt, req) == mt = "Json" /\ req # "Json"

\* An error: its message, the specifier it names (or NoUrl) and the other
\* value it formats (an extension, a content type, or Nil).
Error(msg, s, detail) == [msg |-> msg, specifier |-> s, detail |-> detail]

JsonAttributeMsg == "Attempted to load JSON module without specifying type json"

\* What one run of the future leaves behind: where it stopped, what it
\* classified, the record or the error, and the steps it took in order.
Failed(m, events, e) ==
    [pc |-> "Failed", media_type |-> m, module_type |-> Nil,
     should_transpile |-> FALSE, module |-> None, err |-> Some(e),
     events |-> events]

Suspended(at, m, c, events) ==
    [pc |-> at, media_type |-> m, module_type |-> c.module_type,
     should_transpile |-> c.should_transpile, module |-> None, err |-> None,
     events |-> events]

Unclassified == [ok |-> FALSE, module_type |-> Nil, should_transpile |-> FALSE]

\* Faulty variant: whatever is not a file path is fetched over HTTP.
StartLoadAnyScheme(s, req) ==
    IF ToFilePathOk(s)
    THEN LET m == FromPath(s.ext)
             c == MatchMediaType(m)
         IN  IF ~c.ok
             THEN Failed(m, <<"to_file_path", "classify">>,
                         Error("Unknown extension", NoUrl, s.ext))
             ELSE IF JsonGuardRejects(c.module_type, req)
             THEN Failed(m, <<"to_file_path", "classify", "json_guard">>,
                         Error(JsonAttributeMsg, NoUrl, Nil))
             ELSE Suspended("AwaitRead", m, c,
                            <<"to_file_path", "classify", "json_guard", "fs_read">>)
    ELSE Suspended("AwaitSend", Nil, Unclassified, <<"to_file_path", "http_get">>)

\* From the call up to the first await.
StartLoad(s, req) ==
    IF ToFilePathOk(s)
    THEN LET m == FromPath(s.ext)
             c == MatchMediaType(m)
         IN  IF ~c.ok
             THEN Failed(m, <<"to_file_path", "classify">>,
                         Error("Unknown extension", NoUrl, s.ext))
             ELSE IF JsonGuardRejects(c.module_type, req)
             THEN Failed(m, <<"to_file_path", "classify", "json_guard">>,
                         Error(JsonAttributeMsg, NoUrl, Nil))
             ELSE Suspended("AwaitRead", m, c,
                            <<"to_file_path", "classify", "json_guard", "fs_read">>)
    ELSE IF s.scheme = "http" \/ s.scheme = "https"
    THEN Suspended("AwaitSend", Nil, Unclassified, <<"to_file_path", "http_get">>)
    ELSE Failed(Nil, <<"to_file_path">>, Error("Unsupported module specifier", s, Nil))

IsSuccess(status) == status >= 200 /\ status < 300

\* Faulty variant: the network branch has no JSON guard.
OnResponseNoGuard(s, req, res) ==
    IF ~res.ok
    THEN Failed(Nil, <<>>, Error("send", NoUrl, Nil))
    ELSE IF ~IsSuccess(res.status)
    THEN Failed(Nil, <<"status_check">>, Error("Failed to fetch module", s, Nil))
    ELSE IF res.content_type = Nil
    THEN Failed(Nil, <<"status_check", "content_type">>,
                Error("No content-type header", NoUrl, Nil))
    ELSE LET m == FromContentType(s, res.content_type)
             c == MatchMediaType(m)
             ev == <<"status_check", "content_type", "classify">>
         IN  IF ~c.ok
             THEN Failed(m, ev, Error("Unknown content-type", NoUrl, res.content_type))
             ELSE Suspended("AwaitBody", m, c, Append(ev, "body_read"))

\* Faulty variant: the header is looked up before the status is checked.
OnResponseHeaderFirst(s, req, res) ==
    IF ~res.ok
    THEN Failed(Nil, <<>>, Error("send", NoUrl, Nil))
    ELSE IF res.content_type = Nil
    THEN Failed(Nil, <<"content_type">>, Error("No content-type header", NoUrl, Nil))
    ELSE IF ~IsSuccess(res.status)
    THEN Failed(Nil, <<"content_type", "status_check">>,
                Error("Failed to fetch module", s, Nil))
    ELSE LET m == FromContentType(s, res.content_type)
             c == MatchMediaType(m)
             ev == <<"content_type", "status_check", "classify">>
         IN  IF ~c.ok
             THEN Failed(m, ev, Error("Unknown content-type", NoUrl, res.content_type))
             ELSE IF JsonGuardRejects(c.module_type, req)
             THEN Failed(m, Append(ev, "json_guard"), Error(JsonAttributeMsg, NoUrl, Nil))
             ELSE Suspended("AwaitBody", m, c, ev \o <<"json_guard", "body_read">>)

\* Faulty variant: an absent header falls back to the specifier's extension.
OnResponseExtensionFallback(s, req, res) ==
    IF ~res.ok
    THEN Failed(Nil, <<>>, Error("send", NoUrl, Nil))
    ELSE IF ~IsSuccess(res.status)
    THEN Failed(Nil, <<"status_check">>, Error("Failed to fetch module", s, Nil))
    ELSE LET m == IF res.content_type = Nil
                  THEN FromPath(s.ext)
                  ELSE FromContentType(s, res.content_type)
             c == MatchMediaType(m)
             ev == <<"status_check", "content_type", "classify">>
         IN  IF ~c.ok
             THEN Failed(m, ev, Error("Unknown content-type", NoUrl, res.content_type))
             ELSE IF JsonGuardRejects(c.module_type, req)
             THEN Failed(m, Append(ev, "json_guard"), Error(JsonAttributeMsg, NoUrl, Nil))
             ELSE Suspended("AwaitBody", m, c, ev \o <<"json_guard", "body_read">>)

\* From the completion of send() up to the await of text().
OnResponse(s, req, res) ==
    IF ~res.ok
    THEN Failed(Nil, <<>>, Error("send", NoUrl, Nil))
    ELSE IF ~IsSuccess(res.status)
    THEN Failed(Nil, <<"status_check">>, Error("Failed to fetch module", s, Nil))
    ELSE IF res.content_type = Nil
    THEN Failed(Nil, <<"status_check", "content_type">>,
                Error("No content-type header", NoUrl, Nil))
    ELSE LET m == FromContentType(s, res.content_type)
             c == MatchMediaType(m)
             ev == <<"status_check", "content_type", "classify">>
         IN  IF ~c.ok
             THEN Failed(m, ev, Error("Unknown content-type", NoUrl, res.content_type))
             ELSE IF JsonGuardRejects(c.module_type, req)
             THEN Failed(m, Append(ev, "json_guard"), Error(JsonAttributeMsg, NoUrl, Nil))
             ELSE Suspended("AwaitBody", m, c, ev \o <<"json_guard", "body_read">>)

\* Faulty variant: a failed read is issued again.
OnTextRetry(s, m, mt, transpile, res) ==
    LET Ready(code, events) ==
            [pc |-> "Ready", media_type |-> m, module_type |-> mt,
             should_transpile |-> transpile,
             module |-> Some([module_type |-> mt, code |-> code, specifier |-> s]),
             err |-> None, events |-> events]
        again == [ok |-> TRUE, module_type |-> mt, should_transpile |-> transpile]
    IN  IF ~res.ok
        THEN IF ToFilePathOk(s)
             THEN Suspended("AwaitRead", m, again, <<"fs_read">>)
             ELSE Suspended("AwaitBody", m, again, <<"body_read">>)
        ELSE IF transpile
        THEN IF ParseOk(res.text)
             THEN Ready(Transpile(res.text), <<"transpile", "module_new">>)
             ELSE Failed(m, <<"transpile">>, Error("parse", s, Nil))
        ELSE Ready(res.text, <<"module_new">>)

\* From the completion of the read of the text (file or body) to the end:
\* the transpile gate and ModuleSource::new.
OnText(s, m, mt, transpile, res) ==
    LET Ready(code, events) ==
            [pc |-> "Ready", media_type |-> m, module_type |-> mt,
             should_transpile |-> transpile,
             module |-> Some([module_type |-> mt, code |-> code, specifier |-> s]),
             err |-> None, events |-> events]
    IN  IF ~res.ok
        THEN Failed(m, <<>>, Error("read", NoUrl, Nil))
        ELSE IF transpile
        THEN IF ParseOk(res.text)
             THEN Ready(Transpile(res.text), <<"transpile", "module_new">>)
             ELSE Failed(m, <<"transpile">>, Error("parse", s, Nil))
        ELSE Ready(res.text, <<"module_new">>)

(***************************************************************************)
(* State                                                                   *)
(***************************************************************************)
VARIABLES
    pc,                     \* per load: Idle, AwaitRead, AwaitSend, AwaitBody, Ready, Failed
    module_specifier,       \* per load: the specifier cloned into the future
    requested_module_type,  \* per load: the requested kind moved into the future
    media_type,             \* per load: the MediaType once classified
    module_type,            \* per load: the ModuleType once classified
    should_transpile,       \* per load: the transpile flag once classified
    module,                 \* per load: Some(ModuleSource returned), or None
    err,                    \* per load: Some(error returned), or None
    trace,                  \* per load: the steps the future has taken, in order
    io                      \* per load: the I/O results delivered to it so far

vars == <<pc, module_specifier, requested_module_type, media_type, module_type,
          should_transpile, module, err, trace, io>>

Init ==
    /\ pc = [l \in Loads |-> "Idle"]
    /\ module_specifier = [l \in Loads |-> NoUrl]
    /\ requested_module_type = [l \in Loads |-> Nil]
    /\ media_type = [l \in Loads |-> Nil]
    /\ module_type = [l \in Loads |-> Nil]
    /\ should_transpile = [l \in Loads |-> FALSE]
    /\ module = [l \in Loads |-> None]
    /\ err = [l \in Loads |-> None]
    /\ trace = [l \in Loads |-> <<>>]
    /\ io = [l \in Loads |-> NoIo]

\* Store in load l what a run of its future left behind.
Advance(l, r) ==
    /\ pc' = [pc EXCEPT ![l] = r.pc]
    /\ media_type' = [media_type EXCEPT ![l] = r.media_type]
    /\ module_type' = [module_type EXCEPT ![l] = r.module_type]
    /\ should_transpile' = [should_transpile EXCEPT ![l] = r.should_transpile]
    /\ module' = [module EXCEPT ![l] = r.module]
    /\ err' = [err EXCEPT ![l] = r.err]
    /\ trace' = [trace EXCEPT ![l] = trace[l] \o r.events]

\* The host calls load(); the l-th call is load l.  The future runs to its
\* first await, or to its end when it fails before any.
Load(l, s, req) ==
    /\ pc[l] = "Idle"
    /\ \A k \in Loads : k < l => pc[k] # "Idle"
    /\ module_specifier' = [module_specifier EXCEPT ![l] = s]
    /\ requested_module_type' = [requested_module_type EXCEPT ![l] = req]
    /\ Advance(l, StartLoad(s, req))
    /\ UNCHANGED io

\* tokio::fs::read_to_string completes.
ReadComplete(l, res) ==
    /\ pc[l] = "AwaitRead"
    /\ io' = [io EXCEPT ![l].read = Some(res)]
    /\ Advance(l, OnText(module_specifier[l], media_type[l], module_type[l],
                         should_transpile[l], res))
    /\ UNCHANGED <<module_specifier, requested_module_type>>

\* http.get(..).send() completes.
SendComplete(l, res) ==
    /\ pc[l] = "AwaitSend"
    /\ res \in HttpResultsFor(module_specifier[l])
    /\ io' = [io EXCEPT ![l].send = Some(res)]
    /\ Advance(l, OnResponse(module_specifier[l], requested_module_type[l], res))
    /\ UNCHANGED <<module_specifier, requested_module_type>>

\* Faulty variant: the transpile flag lives in a field the loads share, and
\* the body is processed with whatever a load left there.
BodyCompleteShared(l, res) ==
    /\ pc[l] = "AwaitBody"
    /\ io' = [io EXCEPT ![l].body = Some(res)]
    /\ \E k \in Loads :
          /\ pc[k] # "Idle"
          /\ Advance(l, OnText(module_specifier[l], media_type[l], module_type[l],
                               should_transpile[k], res))
    /\ UNCHANGED <<module_specifier, requested_module_type>>

\* http_res.text() completes.
BodyComplete(l, res) ==
    /\ pc[l] = "AwaitBody"
    /\ io' = [io EXCEPT ![l].body = Some(res)]
    /\ Advance(l, OnText(module_specifier[l], media_type[l], module_type[l],
                         should_transpile[l], res))
    /\ UNCHANGED <<module_specifier, requested_module_type>>

Next ==
    \/ \E l \in Loads, s \in Specifiers, req \in RequestedModuleTypes : Load(l, s, req)
    \/ \E l \in Loads, res \in ReadResults : ReadComplete(l, res)
    \/ \E l \in Loads, res \in HttpResults : SendComplete(l, res)
    \/ \E l \in Loads, res \in ReadResults : BodyComplete(l, res)

Spec == Init /\ [][Next]_vars

(***************************************************************************)
(* Vocabulary of the properties                                            *)
(***************************************************************************)
Issued(l) == pc[l] # "Idle"

Terminal(l) == pc[l] \in {"Ready", "Failed"}

\* The step e occurs in the trace of load l; how often; and every a before
\* every b.
Has(l, e) == \E i \in DOMAIN trace[l] : trace[l][i] = e

Count(l, e) == Len(SelectSeq(trace[l], LAMBDA x : x = e))

Before(l, a, b) ==
    LET ab == SelectSeq(trace[l], LAMBDA x : x = a \/ x = b)
    IN  \A i \in 1..Len(ab) : ab[i] = b => \A j \in i..Len(ab) : ab[j] # a

FileOrigin(l) == ToFilePathOk(module_specifier[l])

NetworkOrigin(l) == module_specifier[l].scheme \in {"http", "https"}

ErrMsg(l) == IF err[l] = None THEN Nil ELSE err[l][1].msg

\* The error taxonomy, by the message the code raises.
IsJsonAttributeError(l) == ErrMsg(l) = JsonAttributeMsg

IsUnknownMediaError(l) == ErrMsg(l) \in {"Unknown extension", "Unknown content-type"}

\* The result of the one read of text a load awaits (file or body), if delivered.
TextResult(l) == io[l].read \o io[l].body

\* Media kinds by the transpile column of the classification table.
TranspileKinds == {"Jsx", "TypeScript", "Mts", "Cts", "Tsx", "Dts", "Dmts", "Dcts"}

VerbatimKinds == {"JavaScript", "Mjs", "Cjs", "Json"}

\* A response with a success status was delivered to load l.
GotSuccess(l) ==
    io[l].send # None /\ io[l].send[1].ok /\ IsSuccess(io[l].send[1].status)

(***************************************************************************)
(* C1                                                                      *)
(***************************************************************************)

\* C1: a module record of type Json exists only for a load that requested
\* Json; a load whose content classifies as Json without that request has
\* failed and never built a record.
C1_JsonRecordOnlyWhenRequested ==
    \A l \in Loads :
        /\ (module[l] # None /\ module[l][1].module_type = "Json")
              => requested_module_type[l] = "Json"
        /\ (media_type[l] = "Json" /\ requested_module_type[l] # "Json")
              => /\ pc[l] = "Failed"
                 /\ module[l] = None
                 /\ ~Has(l, "module_new")

C1_Witness ==
    \E a, b \in Loads :
        /\ pc[a] = "Ready" /\ module[a][1].module_type = "Json" /\ NetworkOrigin(a)
        /\ pc[b] = "Failed" /\ media_type[b] = "Json" /\ FileOrigin(b)
        /\ requested_module_type[b] = "None"

(***************************************************************************)
(* C2                                                                      *)
(***************************************************************************)

\* C2 as stated: for Json-classified content a finished load succeeded iff
\* it requested Json, whatever the other steps did.
C2_Original ==
    \A l \in Loads :
        (Terminal(l) /\ media_type[l] = "Json")
            => /\ (pc[l] = "Ready") <=> (requested_module_type[l] = "Json")
               /\ requested_module_type[l] # "Json" => IsJsonAttributeError(l)

\* C2 amended: Json-classified content fails with the JSON attribute error
\* iff the load did not request Json, on either origin; a load that did
\* request Json succeeds iff its read of the text succeeds, and its record
\* is then of type Json with the text as read.
C2_JsonGuardDecides ==
    \A l \in Loads :
        media_type[l] = "Json" =>
            /\ requested_module_type[l] # "Json"
                  => pc[l] = "Failed" /\ IsJsonAttributeError(l)
            /\ requested_module_type[l] = "Json"
                  => /\ ~IsJsonAttributeError(l)
                     /\ Terminal(l) => TextResult(l) # None
                     /\ Terminal(l) => ((pc[l] = "Ready") <=> TextResult(l)[1].ok)
                     /\ pc[l] = "Ready"
                           => /\ module[l][1].module_type = "Json"
                              /\ module[l][1].code = TextResult(l)[1].text

C2_Witness ==
    \E a, b \in Loads :
        /\ media_type[a] = "Json" /\ requested_module_type[a] = "Json"
        /\ pc[a] = "Failed" /\ FileOrigin(a)
        /\ media_type[b] = "Json" /\ requested_module_type[b] = "None"
        /\ pc[b] = "Failed" /\ NetworkOrigin(b)

(***************************************************************************)
(* C3                                                                      *)
(***************************************************************************)

\* The guard of load l is never evaluated after a transpile or the record
\* construction, and both occur only after it.
GuardBeforeTranspileAndRecord(l) ==
    /\ Before(l, "json_guard", "transpile")
    /\ Before(l, "json_guard", "module_new")
    /\ (Has(l, "transpile") \/ Has(l, "module_new")) => Has(l, "json_guard")

\* C3 as stated: on either origin the JSON attribute check is evaluated only
\* after the fetch (file read issued, GET response received), and before any
\* transpile or record construction.
C3_Original ==
    \A l \in Loads :
        /\ Has(l, "json_guard")
              => \/ Has(l, "fs_read") /\ Before(l, "fs_read", "json_guard")
                 \/ io[l].send # None /\ Before(l, "http_get", "json_guard")
        /\ IsJsonAttributeError(l) => (Has(l, "fs_read") \/ Has(l, "http_get"))
        /\ GuardBeforeTranspileAndRecord(l)

\* C3 amended: for a network identity the check is evaluated only after the
\* GET response has arrived (and before the body is read); for a filesystem
\* identity it is evaluated before the file is read, so a file load that
\* fails with the JSON attribute error has read nothing; on both origins it
\* precedes any transpile and the record construction.
C3_GuardOrder ==
    \A l \in Loads :
        /\ (NetworkOrigin(l) /\ Has(l, "json_guard"))
              => /\ io[l].send # None
                 /\ Before(l, "http_get", "json_guard")
                 /\ Before(l, "json_guard", "body_read")
        /\ (FileOrigin(l) /\ Has(l, "json_guard"))
              => Before(l, "json_guard", "fs_read")
        /\ (FileOrigin(l) /\ IsJsonAttributeError(l))
              => ~Has(l, "fs_read") /\ io[l].read = None
        /\ Has(l, "body_read") => Has(l, "json_guard")
        /\ GuardBeforeTranspileAndRecord(l)

C3_Witness ==
    \E a, b \in Loads :
        /\ FileOrigin(a) /\ IsJsonAttributeError(a)
        /\ NetworkOrigin(b) /\ IsJsonAttributeError(b)

(***************************************************************************)
(* C4                                                                      *)
(***************************************************************************)

\* C4: the text of a returned record is the transpiler's output for the text
\* read when the media kind requires transpilation (the transpiler ran, once),
\* and the text read, untouched by the transpiler, when it does not; Json is
\* never handed to the transpiler.
C4_TranspileGate ==
    \A l \in Loads :
        /\ pc[l] = "Ready"
              => /\ media_type[l] \in TranspileKinds \cup VerbatimKinds
                 /\ TextResult(l) # None /\ TextResult(l)[1].ok
                 /\ media_type[l] \in TranspileKinds
                       => /\ Count(l, "transpile") = 1
                          /\ ParseOk(TextResult(l)[1].text)
                          /\ module[l][1].code = Transpile(TextResult(l)[1].text)
                 /\ media_type[l] \in VerbatimKinds
                       => /\ ~Has(l, "transpile")
                          /\ module[l][1].code = TextResult(l)[1].text
        /\ media_type[l] \in VerbatimKinds => ~Has(l, "transpile")

C4_Witness ==
    \E a, b \in Loads :
        /\ pc[a] = "Ready" /\ media_type[a] = "Jsx" /\ FileOrigin(a)
        /\ module[a][1].code # TextResult(a)[1].text
        /\ pc[b] = "Ready" /\ media_type[b] = "Json" /\ NetworkOrigin(b)
        /\ module[b][1].code = <<"decl", "type", "init">>

(***************************************************************************)
(* C5                                                                      *)
(***************************************************************************)

\* Content types of the classification table's families, and the extensions
\* of its rows.
FamilyContentTypes ==
    { "application/typescript", "application/javascript", "text/jsx", "text/tsx",
      "application/json" }

TableExtensions ==
    { "js", "mjs", "cjs", "jsx", "ts", "mts", "cts", "tsx", "d.ts", "d.mts",
      "d.cts", "json" }

\* The content type delivered to load l matches no family, and the
\* specifier's extension gives the generic text/plain nothing to fall back on.
UnknownContentType(l) ==
    /\ GotSuccess(l)
    /\ io[l].send[1].content_type # Nil
    /\ io[l].send[1].content_type \notin FamilyContentTypes
    /\ ~(/\ io[l].send[1].content_type = "text/plain"
         /\ module_specifier[l].ext \in TableExtensions)

NoFileIo(l) == ~Has(l, "fs_read") /\ io[l].read = None

NoNetworkIo(l) ==
    ~Has(l, "http_get") /\ ~Has(l, "body_read") /\ io[l].send = None /\ io[l].body = None

GotFailureStatus(l) ==
    io[l].send # None /\ io[l].send[1].ok /\ ~IsSuccess(io[l].send[1].status)

\* C7: a non-success status fails the load with the fetch error naming the
\* identity, whatever the header and the requested kind: neither the header
\* nor the classification nor the guard is reached, and the body is not read.
C7_StatusFirst ==
    \A l \in Loads :
        GotFailureStatus(l) =>
            /\ pc[l] = "Failed"
            /\ ErrMsg(l) = "Failed to fetch module"
            /\ err[l][1].specifier = module_specifier[l]
            /\ ~Has(l, "content_type") /\ ~Has(l, "classify") /\ ~Has(l, "json_guard")
            /\ ~Has(l, "body_read") /\ io[l].body = None
            /\ media_type[l] = Nil /\ module[l] = None

C7_Witness ==
    \E a, b \in Loads :
        /\ GotFailureStatus(a) /\ io[a].send[1].content_type = Nil
        /\ GotFailureStatus(b) /\ io[b].send[1].content_type = "application/json"
        /\ requested_module_type[b] = "None"
        /\ pc[a] = "Failed" /\ pc[b] = "Failed"

(***************************************************************************)
(* C8                                                                      *)
(***************************************************************************)

\* C8: a success response without a content-type header fails the load and
\* builds no record, whatever the specifier's extension; a network load is
\* classified only when a header was present.
C8_HeaderRequired ==
    \A l \in Loads :
        /\ (GotSuccess(l) /\ io[l].send[1].content_type = Nil)
              => /\ pc[l] = "Failed"
                 /\ ErrMsg(l) = "No content-type header"
                 /\ module[l] = None
                 /\ media_type[l] = Nil /\ ~Has(l, "classify")
        /\ (NetworkOrigin(l) /\ media_type[l] # Nil)
              => GotSuccess(l) /\ io[l].send[1].content_type # Nil

C8_Witness ==
    \E a, b \in Loads :
        /\ GotSuccess(a) /\ io[a].send[1].content_type = Nil
        /\ module_specifier[a].ext = "d.ts" /\ pc[a] = "Failed"
        /\ GotSuccess(b) /\ io[b].send[1].content_type = "text/plain"
        /\ module_specifier[b].ext = "d.ts" /\ media_type[b] = "Dts"

(***************************************************************************)
(* C9                                                                      *)
(***************************************************************************)

\* The I/O a load is suspended on has not been delivered yet.
AwaitsPendingIo(l) ==
    \/ pc[l] = "AwaitRead" /\ io[l].read = None
    \/ pc[l] = "AwaitSend" /\ io[l].send = None
    \/ pc[l] = "AwaitBody" /\ io[l].body = None

\* Load l holds a record exactly when Ready and an error exactly when Failed,
\* is otherwise waiting for an I/O result, and has attempted each step at
\* most once.
OneOutcome(l) ==
    /\ (pc[l] = "Ready") <=> (module[l] # None)
    /\ (pc[l] = "Failed") <=> (err[l] # None)
    /\ Len(module[l]) + Len(err[l]) <= 1
    /\ (Issued(l) /\ ~Terminal(l)) => AwaitsPendingIo(l)
    /\ \A e \in {"fs_read", "http_get", "body_read", "transpile", "module_new"} :
          Count(l, e) <= 1
    /\ \A r \in {io[l].read, io[l].send, io[l].body} :
          (r # None /\ ~r[1].ok) => pc[l] = "Failed"
    /\ (Has(l, "transpile") /\ ~Has(l, "module_new")) => pc[l] = "Failed"

\* A finished load stays as it is: nothing of it changes again.
OutcomeFinal(l) ==
    Terminal(l) =>
        /\ pc'[l] = pc[l] /\ module'[l] = module[l] /\ err'[l] = err[l]
        /\ trace'[l] = trace[l] /\ io'[l] = io[l]

\* C9: every load ends in exactly one of Ready (a record, no error) and
\* Failed (an error, no record); no step is attempted twice; a failed I/O or
\* transpile step leaves the load Failed; and a finished load never changes,
\* so a Failed load never gets a record.
C9_NoRetry ==
    /\ [](\A l \in Loads : OneOutcome(l))
    /\ [][\A l \in Loads : OutcomeFinal(l)]_vars

C9_Witness ==
    \E a, b \in Loads :
        /\ pc[a] = "Failed" /\ io[a].body # None /\ ~io[a].body[1].ok
        /\ pc[b] = "Failed" /\ ErrMsg(b) = "parse"

(***************************************************************************)
(* C10                                                                     *)
(***************************************************************************)

\* The run b continues the run a.
Join(a, b) == [b EXCEPT !.events = a.events \o b.events]

\* A load running alone: its state after the I/O results i delivered to it,
\* as a function of its specifier, its requested kind and those results.
Alone(s, req, i) ==
    LET r0 == StartLoad(s, req)
    IN  IF r0.pc = "AwaitRead" /\ i.read # None
        THEN Join(r0, OnText(s, r0.media_type, r0.module_type,
                             r0.should_transpile, i.read[1]))
        ELSE IF r0.pc = "AwaitSend" /\ i.send # None
        THEN LET r1 == Join(r0, OnResponse(s, req, i.send[1]))
             IN  IF r1.pc = "AwaitBody" /\ i.body # None
                 THEN Join(r1, OnText(s, r1.media_type, r1.module_type,
                                      r1.should_transpile, i.body[1]))
                 ELSE r1
        ELSE r0

SameAsAlone(l) ==
    Issued(l) =>
        LET r == Alone(module_specifier[l], requested_module_type[l], io[l])
        IN  /\ pc[l] = r.pc
            /\ module[l] = r.module
            /\ err[l] = r.err
            /\ trace[l] = r.events

\* Everything the model keeps for load l.
LoadState(l) ==
    <<pc[l], module_specifier[l], requested_module_type[l], media_type[l],
      module_type[l], should_transpile[l], module[l], err[l], trace[l], io[l]>>

\* A step touches the state of one load only.
OneLoadPerStep ==
    \E l \in Loads : \A k \in Loads \ {l} : LoadState(k)' = LoadState(k)

\* C10: under every interleaving, each load's record or error is the one it
\* has running alone on the same specifier, requested kind and I/O results,
\* and no step of one load changes the state of another.
C10_NoInterference ==
    /\ [](\A l \in Loads : SameAsAlone(l))
    /\ [][OneLoadPerStep]_vars

C10_Witness ==
    \E a, b \in Loads :
        /\ a < b
        /\ pc[a] = "AwaitBody" /\ should_transpile[a]
        /\ pc[b] = "Ready" /\ ~should_transpile[b] /\ NetworkOrigin(b)

====
